---- MODULE Spec2Model ----
(***************************************************************************)
(* A model of the budgeting application's persistence layer                *)
(* (budgeting/models.py): the MonthBudget, MonthCategory and MonthExpense  *)
(* tables, the closed-month guard of ClosedMonthGuardMixin, the save and   *)
(* close methods of MonthBudget, cascade deletion, and the service         *)
(* create_month_with_defaults.                                             *)
(*                                                                         *)
(* Representation.  Primary keys are positive integers handed out by       *)
(* per-table counters; 0 stands for None / NULL.  A date is a pair         *)
(* <<month index, day>>; NoDate is the NULL date.  Category, expense and   *)
(* template names are represented by their rank in alphabetical order, so  *)
(* that the ORDER BY name of the querysets can be computed.  Amounts are   *)
(* whole numbers of pounds.                                                *)
(***************************************************************************)
EXTENDS Integers, Sequences, FiniteSets, TLC

VARIABLES
    months,     \* rows of MonthBudget
    cats,       \* rows of MonthCategory
    exps,       \* rows of MonthExpense
    templates,  \* rows of RecurringExpenseTemplate
    nextId,     \* the AutoField counters of the three month tables
    ops,        \* the number of calls so far that changed the database
    closedIncome, \* history: pk -> the net income stored when the row first became Closed, as a set
    procs,      \* concurrent requests inside create_month_with_defaults: where each is
    fc,         \* a call of forecast_months: its arguments, loop index and results so far
    overrides,  \* rows of ForecastOverride
    req         \* a request making a guarded save or delete: where it is, what it saw

vars == <<months, cats, exps, templates, nextId, ops, closedIncome, procs, fc, overrides, req>>

----------------------------------------------------------------------------
(* Bounds of the model *)

MaxMonthId == 3
MaxCatId == 2
MaxExpId == 2
MaxMonthIndex == 2
MaxOps == 4
MaxProcs == 2
MaxWindow == 3
MaxHorizon == 12
MaxReadHorizon == 2
MaxStartIndex == 12

----------------------------------------------------------------------------
(* Values *)

Open == "open"
Closed == "closed"
Recurring == "recurring"
Variable == "variable"

NoUser == "none"
Owners == {"u1", NoUser}

NoDate == <<0, 0>>
InputDates == {<<mi, d>> : mi \in 1..MaxMonthIndex, d \in {1, 15}}

Incomes == {0, 100}
CatNames == {1, 2}
SortInputs == {5}

\* A faulty variant: the date used as it is given
FirstDayNotNormalized(d) == d

\* month.replace(day=1)
FirstDay(d) == <<d[1], 1>>

\* The order of DateField values (month__lt, order_by("-month")).
DateLt(a, b) == a[1] < b[1] \/ (a[1] = b[1] /\ a[2] < b[2])

\* The calendar: date <<mi, d>> is day d of the month that lies mi - 1 months
\* after January of BaseYear.
BaseYear == 2024
MonthOfYear(mi) == ((mi - 1) % 12) + 1
YearOf(mi) == BaseYear + ((mi - 1) \div 12)
IsLeap(y) == y % 4 = 0 /\ (y % 100 # 0 \/ y % 400 = 0)
DaysIn(mi) ==
    IF MonthOfYear(mi) \in {4, 6, 9, 11} THEN 30
    ELSE IF MonthOfYear(mi) = 2 THEN (IF IsLeap(YearOf(mi)) THEN 29 ELSE 28)
    ELSE 31

\* date + timedelta(days=n)
RECURSIVE AddDays(_, _)
AddDays(d, n) ==
    IF d[2] + n <= DaysIn(d[1]) THEN <<d[1], d[2] + n>>
    ELSE AddDays(<<d[1] + 1, 1>>, n - (DaysIn(d[1]) - d[2] + 1))

\* The field values a caller gives a MonthExpense (name, amount, expense_type,
\* date, notes, enabled, template); month_budget and month_category are given apart.
ExpenseInputs ==
    { [name |-> 1, amount |-> 50, expense_type |-> Recurring, date |-> NoDate,
       notes |-> "", enabled |-> TRUE, template |-> 0],
      [name |-> 2, amount |-> 20, expense_type |-> Variable, date |-> <<1, 15>>,
       notes |-> "n", enabled |-> TRUE, template |-> 0],
      [name |-> 1, amount |-> 30, expense_type |-> Recurring, date |-> NoDate,
       notes |-> "n", enabled |-> FALSE, template |-> 1],
      [name |-> 2, amount |-> 70, expense_type |-> Variable, date |-> NoDate,
       notes |-> "", enabled |-> FALSE, template |-> 0] }

----------------------------------------------------------------------------
(* The database as one value, so that an operation is a function on it *)

Db == [months |-> months, cats |-> cats, exps |-> exps, nextId |-> nextId]

MonthRow(db, pk) == CHOOSE m \in db.months : m.id = pk
CatRow(db, pk) == CHOOSE c \in db.cats : c.id = pk
ExpRow(db, pk) == CHOOSE e \in db.exps : e.id = pk

MonthIds(db) == {m.id : m \in db.months}
CatIds(db) == {c.id : c \in db.cats}
ExpIds(db) == {e.id : e \in db.exps}

Fail(db, why) == [db |-> db, result |-> why, ret |-> 0]

----------------------------------------------------------------------------
(* ClosedMonthGuardMixin *)

\* How a guarded call is made: "plain"; "override" passes admin_override=True;
\* "stale" is a plain call through an object whose cached month_budget was
\* loaded while the month was still open.
Modes == {"plain", "override", "stale"}

\* _get_month_budget: the object's own month_budget when it is set, else the
\* month_budget of its month_category, else None.
GetMonthBudget(db, memMb, memCat) ==
    IF memMb # 0 THEN memMb
    ELSE IF memCat # 0 THEN CatRow(db, memCat).mb
    ELSE 0

\* mb.status as the guard reads it, from the in-memory MonthBudget.
StatusSeen(db, mb, mode) ==
    IF mode = "stale" THEN Open ELSE MonthRow(db, mb).status

\* The check at the top of save() and delete(): PermissionDenied when the month
\* is closed and no override is given.  admin_override is popped from kwargs
\* only inside the closed branch, so on an open month it reaches Model.save /
\* Model.delete, which raise TypeError on the unknown keyword.
\* A faulty variant: the check made in clean() only, which save() and delete() do not call
GuardInCleanOnly(db, mb, mode) == "pass"

Guard(db, mb, mode) ==
    IF mb # 0 /\ StatusSeen(db, mb, mode) = Closed
    THEN IF mode = "override" THEN "pass" ELSE "PermissionDenied"
    ELSE IF mode = "override" THEN "TypeError" ELSE "pass"

----------------------------------------------------------------------------
(* MonthCategory *)

\* MonthCategory.save(): the guard, then Model.save with the unique_together
\* (month_budget, name).  pk = 0 inserts a new row.
CategorySave(db, pk, memMb, name, sort_order, mode) ==
    LET g == Guard(db, GetMonthBudget(db, memMb, 0), mode)
        row == [id |-> IF pk = 0 THEN db.nextId.cat ELSE pk,
                mb |-> memMb, name |-> name, sort_order |-> sort_order]
        others == {c \in db.cats : c.id # pk}
    IN  IF g # "pass" THEN Fail(db, g)
        ELSE IF \E c \in others : c.mb = memMb /\ c.name = name
        THEN Fail(db, "IntegrityError")
        ELSE [db |-> [db EXCEPT !.cats = others \cup {row},
                                !.nextId.cat = IF pk = 0 THEN @ + 1 ELSE @],
              result |-> "ok", ret |-> row.id]

\* on_delete=CASCADE of MonthExpense.month_category: the collector deletes the
\* expenses of a deleted category with a bulk DELETE, not through their delete().
CascadeCategories(db, gone) ==
    [db EXCEPT !.cats = {c \in @ : c.id \notin gone},
               !.exps = {e \in @ : e.cat \notin gone}]

\* MonthCategory.delete(): the guard on the object's month_budget, then the
\* cascading delete.
CategoryDelete(db, pk, mode) ==
    LET g == Guard(db, GetMonthBudget(db, CatRow(db, pk).mb, 0), mode)
    IN  IF g # "pass" THEN Fail(db, g)
        ELSE [db |-> CascadeCategories(db, {pk}), result |-> "ok", ret |-> pk]

----------------------------------------------------------------------------
(* MonthExpense *)

\* MonthExpense.save(): the guard on the in-memory month_budget (or, when that
\* is None, on the category's), then Model.save.  clean() is not called by
\* save(), so the fields are stored as given.  pk = 0 inserts a new row.
ExpenseSave(db, pk, memMb, memCat, f, mode) ==
    LET g == Guard(db, GetMonthBudget(db, memMb, memCat), mode)
        row == [id |-> IF pk = 0 THEN db.nextId.exp ELSE pk,
                mb |-> memMb, cat |-> memCat, name |-> f.name,
                amount |-> f.amount, expense_type |-> f.expense_type,
                date |-> f.date, notes |-> f.notes, enabled |-> f.enabled,
                template |-> f.template]
    IN  IF g # "pass" THEN Fail(db, g)
        ELSE [db |-> [db EXCEPT !.exps = {e \in @ : e.id # pk} \cup {row},
                                !.nextId.exp = IF pk = 0 THEN @ + 1 ELSE @],
              result |-> "ok", ret |-> row.id]

\* MonthExpense.delete(): the guard, then the delete of the one row.
ExpenseDelete(db, pk, mode) ==
    LET e == ExpRow(db, pk)
        g == Guard(db, GetMonthBudget(db, e.mb, e.cat), mode)
    IN  IF g # "pass" THEN Fail(db, g)
        ELSE [db |-> [db EXCEPT !.exps = @ \ {e}], result |-> "ok", ret |-> pk]

----------------------------------------------------------------------------
(* MonthBudget *)

\* The fields Model.save writes: all of them, or those of update_fields.
UpdateFields == {"all", "status", "net_income"}

\* The closed-income check of MonthBudget.save: the stored row is closed and
\* the in-memory net_income differs from the stored one.
IncomeCheck(prev, memIncome) ==
    prev.status = Closed /\ memIncome # prev.net_income

\* MonthBudget.save() of an object with a pk whose row exists: the closed-income
\* check against the stored row, then Model.save(update_fields).
MonthSave(db, pk, memIncome, memStatus, fields) ==
    LET prev == MonthRow(db, pk)
        row == [prev EXCEPT
                  !.net_income = IF fields \in {"all", "net_income"} THEN memIncome ELSE @,
                  !.status = IF fields \in {"all", "status"} THEN memStatus ELSE @]
    IN  IF IncomeCheck(prev, memIncome) THEN Fail(db, "PermissionDenied")
        ELSE [db |-> [db EXCEPT !.months = (@ \ {prev}) \cup {row}],
              result |-> "ok", ret |-> pk]

\* MonthBudget.close(): self.status = CLOSED; self.save(update_fields=["status"]).
MonthClose(db, pk, memIncome) == MonthSave(db, pk, memIncome, Closed, "status")

\* MonthBudget.delete() is Model.delete: no guard, and on_delete=CASCADE of
\* MonthCategory.month_budget, MonthExpense.month_budget and (through the
\* categories) MonthExpense.month_category.
MonthDelete(db, pk) ==
    LET gone == {c.id : c \in {c \in db.cats : c.mb = pk}}
        d1 == CascadeCategories(db, gone)
    IN  [db |-> [d1 EXCEPT !.months = {m \in @ : m.id # pk},
                           !.exps = {e \in @ : e.mb # pk}],
         result |-> "ok", ret |-> pk]

----------------------------------------------------------------------------
(* Querysets of create_month_with_defaults *)

\* A faulty variant: the prior month taken by creation order, order_by("-id")
PrevMonthByCreation(db, user, month) ==
    LET S == {m \in db.months : m.user = user /\ DateLt(m.month, month)}
    IN  IF S = {} THEN 0
        ELSE (CHOOSE m \in S : \A o \in S : m.id >= o.id).id

\* MonthBudget.objects.filter(user=user, month__lt=month).order_by("-month").first():
\* the pk of the user's latest month before `month`, 0 for None.  (user=None
\* filters on user IS NULL.)
PrevMonth(db, user, month) ==
    LET S == {m \in db.months : m.user = user /\ DateLt(m.month, month)}
    IN  IF S = {} THEN 0
        ELSE (CHOOSE m \in S : \A o \in S : ~DateLt(m.month, o.month)).id

\* order_by("sort_order", "name"); the pk breaks what ties are left.
CatLess(a, b) ==
    \/ a.sort_order < b.sort_order
    \/ a.sort_order = b.sort_order /\ a.name < b.name
    \/ a.sort_order = b.sort_order /\ a.name = b.name /\ a.id < b.id

RECURSIVE CatsInOrder(_)
CatsInOrder(S) ==
    IF S = {} THEN <<>>
    ELSE LET c == CHOOSE x \in S : \A y \in S \ {x} : CatLess(x, y)
         IN  <<c>> \o CatsInOrder(S \ {c})

\* MonthExpense.Meta.ordering: month_category__sort_order, expense_type, name;
\* the pk breaks what ties are left.
TypeRank(t) == IF t = Recurring THEN 1 ELSE 2

ExpLess(db, a, b) ==
    LET ka == <<CatRow(db, a.cat).sort_order, TypeRank(a.expense_type), a.name, a.id>>
        kb == <<CatRow(db, b.cat).sort_order, TypeRank(b.expense_type), b.name, b.id>>
    IN  \E i \in 1..4 : ka[i] < kb[i] /\ \A j \in 1..(i - 1) : ka[j] = kb[j]

RECURSIVE ExpsInOrder(_, _)
ExpsInOrder(db, S) ==
    IF S = {} THEN <<>>
    ELSE LET e == CHOOSE x \in S : \A y \in S \ {x} : ExpLess(db, x, y)
         IN  <<e>> \o ExpsInOrder(db, S \ {e})

\* RecurringExpenseTemplate.Meta.ordering: name.
RECURSIVE TemplatesInOrder(_)
TemplatesInOrder(S) ==
    IF S = {} THEN <<>>
    ELSE LET t == CHOOSE x \in S : \A y \in S \ {x} :
                      x.name < y.name \/ (x.name = y.name /\ x.id < y.id)
         IN  <<t>> \o TemplatesInOrder(S \ {t})

\* A faulty variant: the aggregate taken over every category, not filter(month_budget=mb)
MaxOrderUnfiltered(db, mb) ==
    LET S == {c.sort_order : c \in db.cats}
    IN  IF S = {} THEN 0 ELSE CHOOSE x \in S : \A y \in S : y <= x

\* aggregate(m=Max("sort_order")).get("m") or 0, over the month's categories.
MaxOrder(db, mb) ==
    LET S == {c.sort_order : c \in {c \in db.cats : c.mb = mb}}
    IN  IF S = {} THEN 0 ELSE CHOOSE x \in S : \A y \in S : y <= x

\* name_to_cat.get(name): the category of the new month with that name, 0 for None.
NameToCat(db, mb, name) ==
    LET S == {c \in db.cats : c.mb = mb /\ c.name = name}
    IN  IF S = {} THEN 0 ELSE (CHOOSE c \in S : TRUE).id

----------------------------------------------------------------------------
(* create_month_with_defaults: the writes it makes, in order *)

Write(kind, mb, name, n, src) ==
    [kind |-> kind, mb |-> mb, name |-> name, n |-> n, src |-> src]

\* A faulty variant: the income carried forward whatever carry_forward_income is
CarryAlways(db, mb, prev, carry) ==
    <<Write("income", mb, 0, MonthRow(db, prev).net_income, 0)>>

\* if carry_forward_income: mb.net_income = prev.net_income; mb.save(...)
CarryWrites(db, mb, prev, carry) ==
    IF carry THEN <<Write("income", mb, 0, MonthRow(db, prev).net_income, 0)>>
    ELSE <<>>

\* The clone branch (prev exists): the optional income carry-forward, one
\* category per category of prev, one expense per expense whose month_budget
\* is prev and whose category's name is in name_to_cat.
CloneWrites(db, mb, prev, carry) ==
    LET pcats == CatsInOrder({c \in db.cats : c.mb = prev})
        names == {pcats[i].name : i \in 1..Len(pcats)}
        items == ExpsInOrder(db, {e \in db.exps : e.mb = prev})
        kept == SelectSeq(items, LAMBDA e : CatRow(db, e.cat).name \in names)
    IN  CarryWrites(db, mb, prev, carry)
        \o [i \in 1..Len(pcats) |->
               Write("cat", mb, pcats[i].name, pcats[i].sort_order, 0)]
        \o [i \in 1..Len(kept) |->
               Write("exp", mb, CatRow(db, kept[i].cat).name, 0, kept[i].id)]

\* The seed branch (no prev): for each active template of the user, its
\* category when no earlier template named it, then its expense.
RECURSIVE SeedWrites(_, _, _)
SeedWrites(mb, ts, seen) ==
    IF ts = <<>> THEN <<>>
    ELSE LET t == Head(ts)
             name == t.default_category_name
         IN  (IF name \in seen THEN <<>> ELSE <<Write("seedcat", mb, name, 0, 0)>>)
             \o <<Write("seedexp", mb, name, 0, t.id)>>
             \o SeedWrites(mb, Tail(ts), seen \cup {name})

\* The writes after the insert of the MonthBudget row `mb`.
PopulateWrites(db, mb, user, month, carry) ==
    LET prev == PrevMonth(db, user, month)
    IN  IF prev # 0 THEN CloneWrites(db, mb, prev, carry)
        ELSE SeedWrites(mb,
                 TemplatesInOrder({t \in templates : t.active /\ t.user = user}),
                 {})

CreateWrites(db, user, month, carry) ==
    <<Write("month", db.nextId.month, 0, 0, 0)>>
    \o PopulateWrites(db, db.nextId.month, user, month, carry)

\* A faulty variant: the clone keeps month_category=item.month_category
CloneTargetShared(db, mb, item) == item.cat

\* cat = name_to_cat.get(item.month_category.name): the new month's category
\* of the same name as the item's.
CloneTarget(db, mb, item) == NameToCat(db, mb, CatRow(db, item.cat).name)

\* A faulty variant: the clone keeps month_budget=item.month_budget
CloneMonthOfItem(mb, item) == item.mb

\* month_budget=mb: the clone is put under the new month.
CloneMonth(mb, item) == mb

\* The date of a cloned expense: the new month for a variable expense, else None.
CloneDate(db, mb, expense_type) ==
    IF expense_type = Variable THEN MonthRow(db, mb).month ELSE NoDate

\* One write, on the database so far.
ApplyWrite(db, user, month, w) ==
    CASE w.kind = "month" ->
           [db |-> [db EXCEPT !.months = @ \cup
                        {[id |-> w.mb, user |-> user, month |-> month,
                          net_income |-> 0, status |-> Open]},
                    !.nextId.month = @ + 1],
            result |-> "ok", ret |-> w.mb]
      [] w.kind = "income" -> MonthSave(db, w.mb, w.n, Open, "net_income")
      [] w.kind = "cat" -> CategorySave(db, 0, w.mb, w.name, w.n, "plain")
      [] w.kind = "exp" ->
           LET item == ExpRow(db, w.src)
           IN  ExpenseSave(db, 0, CloneMonth(w.mb, item), CloneTarget(db, w.mb, item),
                   [name |-> item.name, amount |-> item.amount,
                    expense_type |-> item.expense_type,
                    date |-> CloneDate(db, w.mb, item.expense_type),
                    notes |-> item.notes, enabled |-> item.enabled,
                    template |-> item.template], "plain")
      [] w.kind = "seedcat" ->
           CategorySave(db, 0, w.mb, w.name, MaxOrder(db, w.mb) + 10, "plain")
      [] w.kind = "seedexp" ->
           LET t == CHOOSE t \in templates : t.id = w.src
           IN  ExpenseSave(db, 0, w.mb, NameToCat(db, w.mb, w.name),
                   [name |-> t.name, amount |-> t.default_amount,
                    expense_type |-> Recurring, date |-> NoDate, notes |-> "",
                    enabled |-> TRUE, template |-> t.id], "plain")

\* The first k writes; a write that raises ends the run with its error.
RECURSIVE ApplyWrites(_, _, _, _, _)
ApplyWrites(db, user, month, ws, k) ==
    IF k = 0 THEN [db |-> db, result |-> "ok", ret |-> 0]
    ELSE LET before == ApplyWrites(db, user, month, ws, k - 1)
         IN  IF before.result # "ok" THEN before
             ELSE ApplyWrite(before.db, user, month, ws[k])

\* @transaction.atomic: an exception leaving the function rolls every write
\* of the call back.
\* A faulty variant: no transaction around the call: the writes made so far stay
NotAtomic(before, partial) == partial

Atomic(before, partial) == before

\* The get of MonthBudget.objects.get_or_create(user=user, month=month).
Lookup(db, user, month) == {m \in db.months : m.user = user /\ m.month = month}

\* create_month_with_defaults(month, user, carry_forward_income).  failAt = k > 0
\* makes the k-th write of the call raise (a database error); 0 lets all succeed.
CreateMonthWithDefaults(db, month, user, carry, failAt) ==
    LET m1 == FirstDay(month)
        found == Lookup(db, user, m1)
        ws == CreateWrites(db, user, m1, carry)
        k == IF failAt \in 1..Len(ws) THEN failAt - 1 ELSE Len(ws)
        run == ApplyWrites(db, user, m1, ws, k)
    IN  IF Cardinality(found) > 1 THEN Fail(db, "MultipleObjectsReturned")
        ELSE IF found # {}
        THEN [db |-> db, result |-> "existing", ret |-> (CHOOSE m \in found : TRUE).id]
        ELSE IF run.result # "ok" \/ k < Len(ws)
        THEN [db |-> Atomic(db, run.db), result |-> "error", ret |-> 0]
        ELSE [db |-> run.db, result |-> "created", ret |-> db.nextId.month]

----------------------------------------------------------------------------
(* The state machine *)

\* The templates table: three templates of u1 (named 1, 2, 3 with categories
\* 2, 1, 2) and one of no user; the active flags are those of the initial state.
TemplateRows(active) ==
    { [id |-> 1, user |-> "u1", name |-> 1, default_amount |-> 10,
       default_category_name |-> 2, active |-> 1 \in active],
      [id |-> 2, user |-> "u1", name |-> 2, default_amount |-> 20,
       default_category_name |-> 1, active |-> 2 \in active],
      [id |-> 3, user |-> "u1", name |-> 3, default_amount |-> 30,
       default_category_name |-> 2, active |-> 3 \in active],
      [id |-> 4, user |-> NoUser, name |-> 1, default_amount |-> 40,
       default_category_name |-> 1, active |-> 4 \in active] }

ActiveSets == {{4}, {1, 2}, {1, 3}}

NeverClosed == {}

\* No call of forecast_months under way.
NoForecast == [pc |-> "idle", user |-> NoUser, start |-> NoDate, horizon |-> 0,
               i |-> 0, results |-> <<>>]

\* A request: its place in create_month_with_defaults, its arguments (the month
\* already normalized), the pk of the row it inserted, and what it returned.
Procs == 1..MaxProcs
Idle == [pc |-> "idle", user |-> NoUser, month |-> NoDate, carry |-> FALSE,
         mb |-> 0, result |-> "none", ret |-> 0]

Init ==
    /\ months = {}
    /\ cats = {}
    /\ exps = {}
    /\ \E a \in ActiveSets : templates = TemplateRows(a)
    /\ nextId = [month |-> 1, cat |-> 1, exp |-> 1]
    /\ ops = 0
    /\ closedIncome = [pk \in 1..MaxMonthId |-> NeverClosed]
    /\ procs = [p \in Procs |-> Idle]
    /\ fc = NoForecast
    /\ overrides = {}
    /\ req = [pc |-> "idle", call |-> <<>>, seen |-> "unread", result |-> "none"]

\* The history of closings: the income a row held when it first became Closed.
ClosedIncomeAfter(db) ==
    [pk \in DOMAIN closedIncome |->
        IF closedIncome[pk] # NeverClosed THEN closedIncome[pk]
        ELSE IF \E m \in db.months : m.id = pk /\ m.status = Closed
        THEN {MonthRow(db, pk).net_income}
        ELSE NeverClosed]

\* The call returns `out`: its database becomes the state.  A call that raises
\* (or finds the month to exist) leaves the database as it was.
Returns(out) ==
    /\ ops < MaxOps
    /\ out.db # Db
    /\ out.db.nextId.month <= MaxMonthId + 1
    /\ out.db.nextId.cat <= MaxCatId + 1
    /\ out.db.nextId.exp <= MaxExpId + 1
    /\ months' = out.db.months
    /\ cats' = out.db.cats
    /\ exps' = out.db.exps
    /\ nextId' = out.db.nextId
    /\ ops' = ops + 1
    /\ closedIncome' = ClosedIncomeAfter(out.db)
    /\ UNCHANGED <<templates, procs, fc, overrides, req>>

\* The calls a caller can make in the current state, as argument records.
CreateCalls ==
    [month : InputDates, user : Owners, carry : BOOLEAN, failAt : 0..(MaxCatId + MaxExpId + 2)]

MonthSaveCalls ==
    [pk : MonthIds(Db), net_income : Incomes, status : {Open, Closed}, fields : UpdateFields]

CategorySaveCalls ==
    [pk : CatIds(Db) \cup {0}, mb : MonthIds(Db), name : CatNames,
     sort_order : SortInputs, mode : Modes]

ExpenseSaveCalls ==
    [pk : ExpIds(Db) \cup {0}, mb : MonthIds(Db) \cup {0}, cat : CatIds(Db),
     f : ExpenseInputs, mode : Modes]

DoCreate(c) == CreateMonthWithDefaults(Db, c.month, c.user, c.carry, c.failAt)
DoMonthSave(c) == MonthSave(Db, c.pk, c.net_income, c.status, c.fields)
DoCategorySave(c) == CategorySave(Db, c.pk, c.mb, c.name, c.sort_order, c.mode)
DoExpenseSave(c) == ExpenseSave(Db, c.pk, c.mb, c.cat, c.f, c.mode)

\* A stale object differs from a fresh one only when the month is closed by now.
ModeApplies(mb, mode) ==
    mode = "stale" => (mb # 0 /\ MonthRow(Db, mb).status = Closed)

CreateMonth ==
    \E c \in CreateCalls : Returns(DoCreate(c))

CloseMonth ==
    \E pk \in MonthIds(Db), inc \in Incomes : Returns(MonthClose(Db, pk, inc))

SaveMonth ==
    \E c \in MonthSaveCalls : Returns(DoMonthSave(c))

DeleteMonth ==
    \E pk \in MonthIds(Db) : Returns(MonthDelete(Db, pk))

SaveCategory(modes) ==
    \E c \in CategorySaveCalls :
        /\ c.mode \in modes
        /\ ModeApplies(c.mb, c.mode)
        /\ Returns(DoCategorySave(c))

DeleteCategory(modes) ==
    \E pk \in CatIds(Db), mode \in modes :
        /\ ModeApplies(CatRow(Db, pk).mb, mode)
        /\ Returns(CategoryDelete(Db, pk, mode))

SaveExpense(modes) ==
    \E c \in ExpenseSaveCalls :
        /\ c.mode \in modes
        /\ ModeApplies(GetMonthBudget(Db, c.mb, c.cat), c.mode)
        /\ Returns(DoExpenseSave(c))

DeleteExpense(modes) ==
    \E pk \in ExpIds(Db), mode \in modes :
        /\ ModeApplies(GetMonthBudget(Db, ExpRow(Db, pk).mb, ExpRow(Db, pk).cat), mode)
        /\ Returns(ExpenseDelete(Db, pk, mode))

Next ==
    \/ CreateMonth
    \/ CloseMonth
    \/ SaveMonth
    \/ DeleteMonth
    \/ SaveCategory(Modes)
    \/ DeleteCategory(Modes)
    \/ SaveExpense(Modes)
    \/ DeleteExpense(Modes)

Spec == Init /\ [][Next]_vars

\* The same calls, none of them with admin_override and none through a stale object.
NextPlain ==
    \/ CreateMonth
    \/ CloseMonth
    \/ SaveMonth
    \/ DeleteMonth
    \/ SaveCategory({"plain"})
    \/ DeleteCategory({"plain"})
    \/ SaveExpense({"plain"})
    \/ DeleteExpense({"plain"})

SpecPlain == Init /\ [][NextPlain]_vars

----------------------------------------------------------------------------
(* Concurrent requests in create_month_with_defaults *)

(***************************************************************************)
(* Each request runs the function in its own transaction, at the READ      *)
(* COMMITTED isolation of a server database: a row inserted by a           *)
(* transaction is seen by the others once it has committed; an insert      *)
(* whose (user, month) key another open transaction has inserted waits for *)
(* that transaction to end; the unique index on (user, month) does not     *)
(* compare rows whose user is NULL.  The pk of a row is taken from the     *)
(* table's counter when it is inserted.  The steps of a request: the get   *)
(* of get_or_create, its create, then the rest of the function with the    *)
(* commit.                                                                 *)
(***************************************************************************)

\* A request enters the function: month = month.replace(day=1).
Begin(p) ==
    /\ procs[p].pc \in {"idle", "done"}
    /\ \E user \in Owners, d \in InputDates, carry \in BOOLEAN :
           procs' = [procs EXCEPT ![p] =
                        [Idle EXCEPT !.pc = "get", !.user = user,
                                     !.month = FirstDay(d), !.carry = carry]]
    /\ UNCHANGED <<months, cats, exps, templates, nextId, ops, closedIncome, fc, overrides, req>>

Finish(p, result, ret) ==
    procs' = [procs EXCEPT ![p].pc = "done", ![p].result = result, ![p].ret = ret]

\* get_or_create: self.get(**kwargs) on the committed rows.
ConcGet(p) ==
    /\ procs[p].pc = "get"
    /\ LET found == Lookup(Db, procs[p].user, procs[p].month)
       IN  IF found = {}
           THEN procs' = [procs EXCEPT ![p].pc = "insert"]
           ELSE IF Cardinality(found) = 1
           THEN Finish(p, "existing", (CHOOSE m \in found : TRUE).id)
           ELSE Finish(p, "MultipleObjectsReturned", 0)
    /\ UNCHANGED <<months, cats, exps, templates, nextId, ops, closedIncome, fc, overrides, req>>

\* Whether the unique index on (user, month) sets the two keys against each
\* other: a NULL user is equal to no user.
UniqueClash(user1, month1, user2, month2) ==
    user1 # NoUser /\ user1 = user2 /\ month1 = month2

\* get_or_create: self.create(**params); on IntegrityError, self.get(**kwargs).
ConcInsert(p) ==
    /\ procs[p].pc = "insert"
    /\ ~ \E q \in Procs \ {p} :
           /\ procs[q].pc = "populate"
           /\ UniqueClash(procs[p].user, procs[p].month, procs[q].user, procs[q].month)
    /\ LET clash == {m \in months :
                        UniqueClash(procs[p].user, procs[p].month, m.user, m.month)}
       IN  IF clash # {}
           THEN /\ Finish(p, "existing", (CHOOSE m \in clash : TRUE).id)
                /\ UNCHANGED nextId
           ELSE /\ nextId.month <= MaxMonthId
                /\ procs' = [procs EXCEPT ![p].pc = "populate", ![p].mb = nextId.month]
                /\ nextId' = [nextId EXCEPT !.month = @ + 1]
    /\ UNCHANGED <<months, cats, exps, templates, ops, closedIncome, fc, overrides, req>>

\* The rest of the function, and the commit of the transaction.
ConcCommit(p) ==
    /\ procs[p].pc = "populate"
    /\ ops < MaxOps
    /\ LET r == procs[p]
           view == [Db EXCEPT !.months = @ \cup
                        {[id |-> r.mb, user |-> r.user, month |-> r.month,
                          net_income |-> 0, status |-> Open]}]
           ws == PopulateWrites(view, r.mb, r.user, r.month, r.carry)
           run == ApplyWrites(view, r.user, r.month, ws, Len(ws))
       IN  /\ run.result = "ok"
           /\ run.db.nextId.cat <= MaxCatId + 1
           /\ run.db.nextId.exp <= MaxExpId + 1
           /\ months' = run.db.months
           /\ cats' = run.db.cats
           /\ exps' = run.db.exps
           /\ nextId' = run.db.nextId
           /\ Finish(p, "created", r.mb)
    /\ ops' = ops + 1
    /\ UNCHANGED <<templates, closedIncome, fc, overrides, req>>

NextConc ==
    \E p \in Procs :
        \/ Begin(p)
        \/ ConcGet(p)
        \/ ConcInsert(p)
        \/ ConcCommit(p)

SpecConc == Init /\ [][NextConc]_vars

----------------------------------------------------------------------------
(* Read side: the totals of a month, over its monthexpense_set *)

RECURSIVE SumAmounts(_)
SumAmounts(S) ==
    IF S = {} THEN 0
    ELSE LET e == CHOOSE x \in S : TRUE IN e.amount + SumAmounts(S \ {e})

\* aggregate(s=models.Sum("amount")).get("s"): None (here <<>>) over no rows.
Aggregate(S) == IF S = {} THEN <<>> ELSE <<SumAmounts(S)>>

\* x or Decimal("0"): None and a zero sum both give 0.
OrZero(a) == IF a = <<>> THEN 0 ELSE IF a[1] = 0 THEN 0 ELSE a[1]

\* A faulty variant: the recurring total taken without filter(enabled=True)
TotalRecurringAll(db, mb) ==
    OrZero(Aggregate({e \in db.exps : e.mb = mb /\ e.expense_type = Recurring}))

total_recurring(db, mb) ==
    OrZero(Aggregate({e \in db.exps :
                         e.mb = mb /\ e.enabled /\ e.expense_type = Recurring}))

total_variable(db, mb) ==
    OrZero(Aggregate({e \in db.exps : e.mb = mb /\ e.expense_type = Variable}))

total_expenses(db, mb) ==
    OrZero(<<total_recurring(db, mb)>>) + OrZero(<<total_variable(db, mb)>>)

balance(db, mb) ==
    OrZero(<<MonthRow(db, mb).net_income>>) - total_expenses(db, mb)

----------------------------------------------------------------------------
(* Read side: trailing_average_variable *)

\* A Decimal quotient, kept as numerator and denominator.
Ratio(n, d) == [num |-> n, den |-> d]
RatioEq(a, b) == a.num * b.den = b.num * a.den
RatioAdd(a, b) == Ratio(a.num * b.den + b.num * a.den, a.den * b.den)

\* The rows of the query: the Variable expenses in a category of that name
\* whose month (the category's) is the user's and lies before up_to.
TrailingRows(db, user, up_to, category_name) ==
    {e \in db.exps :
        /\ e.expense_type = Variable
        /\ LET c == CatRow(db, e.cat)
               m == MonthRow(db, c.mb)
           IN  c.name = category_name /\ m.user = user /\ DateLt(m.month, up_to)}

\* .values(month).annotate(total=Sum("amount")).order_by("-month"): one total
\* per month value that has a row, the latest month first.
RECURSIVE GroupTotals(_, _)
GroupTotals(db, rows) ==
    IF rows = {} THEN <<>>
    ELSE LET monthOf(e) == MonthRow(db, CatRow(db, e.cat).mb).month
             top == CHOOSE e \in rows : \A x \in rows : ~DateLt(monthOf(e), monthOf(x))
             grp == {e \in rows : monthOf(e) = monthOf(top)}
         IN  <<SumAmounts(grp)>> \o GroupTotals(db, rows \ grp)

RECURSIVE SumSeq(_)
SumSeq(q) == IF q = <<>> THEN 0 ELSE Head(q) + SumSeq(Tail(q))

\* trailing_average_variable(user, up_to_month, category_name, months)
trailing_average_variable(db, user, up_to_month, category_name, n) ==
    LET up_to == FirstDay(up_to_month)
        qs == GroupTotals(db, TrailingRows(db, user, up_to, category_name))
        totals == SubSeq(qs, 1, IF n < Len(qs) THEN n ELSE Len(qs))
    IN  IF totals = <<>> THEN Ratio(0, 1)
        ELSE Ratio(SumSeq(totals), Len(totals))

\* The arguments of a read: any date of the months in use and of the one after.
QueryDates == {<<mi, d>> : mi \in 1..(MaxMonthIndex + 1), d \in {1, 15}}
Windows == 0..MaxWindow

----------------------------------------------------------------------------
(* Read side: forecast_months *)

\* A faulty variant: the baseline sought with month__lt, the start month left out
LatestBeforeOnly(db, user, start) ==
    LET S == {m \in db.months : m.user = user /\ DateLt(m.month, start)}
    IN  IF S = {} THEN 0
        ELSE (CHOOSE m \in S : \A x \in S : ~DateLt(m.month, x.month)).id

\* latest = MonthBudget.objects.filter(user=user, month__lte=start)
\*              .order_by("-month").first(); 0 for None.
LatestAtOrBefore(db, user, start) ==
    LET S == {m \in db.months : m.user = user /\ ~DateLt(start, m.month)}
    IN  IF S = {} THEN 0
        ELSE (CHOOSE m \in S : \A x \in S : ~DateLt(m.month, x.month)).id

\* recurring_by_cat: category name -> the sum of the enabled Recurring
\* amounts of latest.monthexpense_set under categories of that name.
RecurringByCat(db, latest) ==
    LET rows == {e \in db.exps :
                    e.mb = latest /\ latest # 0 /\ e.enabled /\ e.expense_type = Recurring}
        names == {CatRow(db, e.cat).name : e \in rows}
    IN  [n \in names |-> SumAmounts({e \in rows : CatRow(db, e.cat).name = n})]

RECURSIVE SumValues(_, _)
SumValues(f, D) ==
    IF D = {} THEN 0
    ELSE LET k == CHOOSE k \in D : TRUE IN f[k] + SumValues(f, D \ {k})

\* m = (start.replace(day=15) + timedelta(days=32 * i)).replace(day=1)
ForecastMonth(start, i) == FirstDay(AddDays(<<start[1], 15>>, 32 * i))

\* variable_estimate: the trailing averages of the names of recurring_by_cat.
RECURSIVE VariableEstimate(_, _, _, _)
VariableEstimate(db, user, m, names) ==
    IF names = {} THEN Ratio(0, 1)
    ELSE LET n == CHOOSE n \in names : TRUE
         IN  RatioAdd(trailing_average_variable(db, user, m, n, 3),
                      VariableEstimate(db, user, m, names \ {n}))

\* One pass of the loop: the ForecastResult of index i.
ForecastResult(db, user, start, i) ==
    LET by_cat == RecurringByCat(db, LatestAtOrBefore(db, user, start))
        m == ForecastMonth(start, i)
        recurring_total == IF DOMAIN by_cat # {} THEN SumValues(by_cat, DOMAIN by_cat) ELSE 0
        variable_estimate == VariableEstimate(db, user, m, DOMAIN by_cat)
        total == RatioAdd(Ratio(recurring_total, 1), variable_estimate)
    IN  [month |-> m, recurring_total |-> recurring_total,
         variable_estimate |-> variable_estimate, total_expenses |-> total,
         balance |-> Ratio(0 - total.num, total.den)]

\* forecast_months(user, start_month, horizon)
forecast_months(db, user, start_month, horizon) ==
    [k \in 1..horizon |-> ForecastResult(db, user, FirstDay(start_month), k - 1)]

\* The call, pass by pass.
ForecastStarts == {<<mi, d>> : mi \in 1..MaxStartIndex, d \in {1, 15}}

ForecastBegin ==
    /\ fc.pc \in {"idle", "done"}
    /\ \E user \in Owners, start_month \in ForecastStarts, horizon \in 0..MaxHorizon :
           fc' = [pc |-> "loop", user |-> user, start |-> FirstDay(start_month),
                  horizon |-> horizon, i |-> 0, results |-> <<>>]
    /\ UNCHANGED <<months, cats, exps, templates, nextId, ops, closedIncome, procs, overrides, req>>

ForecastStep ==
    /\ fc.pc = "loop"
    /\ fc.i < fc.horizon
    /\ fc' = [fc EXCEPT !.i = @ + 1,
                        !.results = Append(@, ForecastResult(Db, fc.user, fc.start, fc.i))]
    /\ UNCHANGED <<months, cats, exps, templates, nextId, ops, closedIncome, procs, overrides, req>>

ForecastReturn ==
    /\ fc.pc = "loop"
    /\ fc.i = fc.horizon
    /\ fc' = [fc EXCEPT !.pc = "done"]
    /\ UNCHANGED <<months, cats, exps, templates, nextId, ops, closedIncome, procs, overrides, req>>

NextForecast == ForecastBegin \/ ForecastStep \/ ForecastReturn

SpecForecast == Init /\ [][NextForecast]_vars

----------------------------------------------------------------------------
(* ForecastOverride *)

OverrideAmounts == {7}

\* ForecastOverride.save() of a new row (the admin's add form): the guard on
\* month_budget, then the insert, which the unique index on (month_budget,
\* month_category) refuses for a second row of the pair.
SaveOverride ==
    \E mb \in MonthIds(Db), cat \in CatIds(Db), amount \in OverrideAmounts :
        /\ ops < MaxOps
        /\ Guard(Db, mb, "plain") = "pass"
        /\ ~ \E o \in overrides : o.mb = mb /\ o.cat = cat
        /\ overrides' = overrides \cup {[mb |-> mb, cat |-> cat, override_amount |-> amount]}
        /\ ops' = ops + 1
        /\ UNCHANGED <<months, cats, exps, templates, nextId, closedIncome, procs, fc, req>>

\* ForecastOverride.delete(): the guard, then the delete of the row.
DeleteOverride ==
    \E o \in overrides :
        /\ ops < MaxOps
        /\ Guard(Db, o.mb, "plain") = "pass"
        /\ overrides' = overrides \ {o}
        /\ ops' = ops + 1
        /\ UNCHANGED <<months, cats, exps, templates, nextId, closedIncome, procs, fc, req>>

NextOverride ==
    \/ CreateMonth
    \/ CloseMonth
    \/ SaveOverride
    \/ DeleteOverride

SpecOverride == Init /\ [][NextOverride]_vars

----------------------------------------------------------------------------
(* Vocabulary of the properties *)

ClosedMonths == {m.id : m \in {m \in months : m.status = Closed}}

\* The categories of a month, and the expenses that lie wholly in it: in one
\* of its categories, with the month itself (or nothing) as month_budget.
CatsOf(db, mb) == {c \in db.cats : c.mb = mb}
ExpsOf(db, mb) ==
    {e \in db.exps : e.mb \in {mb, 0} /\ CatRow(db, e.cat).mb = mb}

\* Every record that refers to the month, by either reference.
ExpsTouching(db, mb) ==
    {e \in db.exps : e.mb = mb \/ CatRow(db, e.cat).mb = mb}

Rejected(out, why) == out.result = why /\ out.db = Db

----------------------------------------------------------------------------
(* C1: closed immutability of the guarded calls *)

\* C1.  In every reachable state, for every closed month M, every call made
\* without admin_override through an up-to-date object that lies under M --
\* saving a category (new or changed) whose month_budget is M, deleting a
\* category of M, saving an expense (new or changed) whose category is M's and
\* whose month_budget is M or unset, deleting such an expense -- raises
\* PermissionDenied and leaves the stored rows as they were; the totals of M
\* are still computed.
C1_ClosedMonthRejectsWrites ==
    \A M \in ClosedMonths :
        /\ \A c \in CategorySaveCalls :
               (c.mode = "plain" /\ c.mb = M)
                   => Rejected(DoCategorySave(c), "PermissionDenied")
        /\ \A c \in CatsOf(Db, M) :
               Rejected(CategoryDelete(Db, c.id, "plain"), "PermissionDenied")
        /\ \A c \in ExpenseSaveCalls :
               (c.mode = "plain" /\ c.mb \in {M, 0} /\ CatRow(Db, c.cat).mb = M)
                   => Rejected(DoExpenseSave(c), "PermissionDenied")
        /\ \A e \in ExpsOf(Db, M) :
               Rejected(ExpenseDelete(Db, e.id, "plain"), "PermissionDenied")
        /\ total_recurring(Db, M) + total_variable(Db, M) \in Nat

\* A closed month that holds a category and an expense, so that each of the
\* four kinds of call has a target.
C1_Witness ==
    \E M \in ClosedMonths : CatsOf(Db, M) # {} /\ ExpsOf(Db, M) # {}

----------------------------------------------------------------------------
(* C2: no record under a closed month changes without the override *)

\* C2.  No call made without admin_override changes the categories or expenses
\* that refer to a month that is Closed when the call is made: stated for
\* every step of SpecPlain, whose calls pass no override.
C2_ClosedRecordsFrozen ==
    [][\A M \in ClosedMonths :
          /\ CatsOf(Db, M) = {c \in cats' : c.mb = M}
          /\ ExpsTouching(Db, M) =
                {e \in exps' : e.mb = M \/ \E c \in cats' : c.id = e.cat /\ c.mb = M}]_vars

----------------------------------------------------------------------------
(* C3: Closed is terminal *)

\* C3.  A MonthBudget whose stored status is Closed never has the stored
\* status Open afterwards.
C3_ClosedIsTerminal ==
    [][\A m \in months : m.status = Closed =>
          \A n \in months' : n.id = m.id => n.status = Closed]_vars

----------------------------------------------------------------------------
(* C4: the income of a closed month *)

\* C4.  A MonthBudget.save on a row stored as Closed with another net income
\* than the stored one raises and changes nothing, and every row that was ever
\* Closed still holds the income it had when it was closed.
C4_ClosedIncomeFrozen ==
    /\ \A c \in MonthSaveCalls :
           (MonthRow(Db, c.pk).status = Closed /\ c.net_income # MonthRow(Db, c.pk).net_income)
               => Rejected(DoMonthSave(c), "PermissionDenied")
    /\ \A m \in months :
           closedIncome[m.id] # NeverClosed => m.net_income \in closedIncome[m.id]

----------------------------------------------------------------------------
(* C5: create_month_with_defaults on an existing month *)

\* C5.  In every reachable state, for every owner, date, carry_forward_income
\* (and whatever a write would do), when a MonthBudget is stored for the owner
\* and the first day of the date's month, create_month_with_defaults returns
\* that row's pk and leaves every stored row unchanged.
C5_CreateIsIdempotent ==
    \A c \in CreateCalls :
        \A m \in months :
            (m.user = c.user /\ m.month = <<c.month[1], 1>>)
                => LET out == DoCreate(c)
                   IN  out.ret = m.id /\ out.db = Db /\ out.result = "existing"

\* A stored month with records and an income that differ from its prior
\* month's: a second call that cloned or carried forward again would show.
C5_Witness ==
    \E m \in months, p \in months :
        /\ m.user = p.user /\ DateLt(p.month, m.month)
        /\ m.net_income # p.net_income
        /\ CatsOf(Db, p.id) # {}
        /\ m.status = Closed

----------------------------------------------------------------------------
(* C7: create_month_with_defaults is all-or-nothing *)

PopulatingWrites(ws) ==
    Len(SelectSeq(ws, LAMBDA w : w.kind \in {"cat", "exp", "seedcat", "seedexp"}))

\* C7.  In every reachable state, when create_month_with_defaults is called
\* for a month that is not stored and a write after the insert of the
\* MonthBudget row raises, the call raises and the stored rows are those from
\* before the call (no row of the month, none of its categories or expenses);
\* the same call made again with no failure creates the month with all of its
\* categories and expenses.
C7_CreateIsAllOrNothing ==
    \A c \in CreateCalls :
        LET m1 == <<c.month[1], 1>>
            ws == CreateWrites(Db, c.user, m1, c.carry)
            out == DoCreate(c)
            again == CreateMonthWithDefaults(out.db, c.month, c.user, c.carry, 0)
        IN  ((~ \E m \in months : m.user = c.user /\ m.month = m1)
             /\ c.failAt \in 2..Len(ws))
            => /\ out.result = "error"
               /\ out.db = Db
               /\ again.result = "created"
               /\ \E m \in again.db.months :
                      m.id = again.ret /\ m.user = c.user /\ m.month = m1
               /\ Cardinality(again.db.cats) + Cardinality(again.db.exps)
                      = Cardinality(cats) + Cardinality(exps) + PopulatingWrites(ws)

\* A state in which a call can fail after the row, the carry-forward, a
\* category and an expense have been written.
C7_Witness ==
    \E c \in CreateCalls :
        /\ ~ \E m \in months : m.user = c.user /\ m.month = <<c.month[1], 1>>
        /\ c.carry
        /\ c.failAt = 4
        /\ Len(CreateWrites(Db, c.user, <<c.month[1], 1>>, c.carry)) >= 4
        /\ PrevMonth(Db, c.user, <<c.month[1], 1>>) # 0

----------------------------------------------------------------------------
(* C8, C9, C10: what a created month holds *)

DbNext == [months |-> months', cats |-> cats', exps |-> exps', nextId |-> nextId']

\* The months a step creates (create_month_with_defaults is the only insert).
Created == {m \in months' : m.id \notin MonthIds(Db)}

\* The owner's stored months before the new one, and the latest of them.
Earlier(B) == {p \in months : p.user = B.user /\ DateLt(p.month, B.month)}
Latest(S) == CHOOSE p \in S : \A q \in S : ~DateLt(p.month, q.month)

\* What a clone of expense e must look like in new month B: its category's
\* name and its fields, with the date rule.
CloneImage(e, B) ==
    <<CatRow(Db, e.cat).name, e.name, e.amount, e.expense_type, e.notes, e.enabled,
      e.template, IF e.expense_type = Variable THEN B.month ELSE NoDate>>

\* What an expense of the new month looks like.
StoredImage(e) ==
    <<CatRow(DbNext, e.cat).name, e.name, e.amount, e.expense_type, e.notes, e.enabled,
      e.template, e.date>>

\* C8.  When a step creates month B and the owner has an earlier month, with A
\* the latest: B's categories are A's by name and sort order, one each; B's
\* expenses are A's (those whose month_budget is A), one each, in B's category
\* of the same name, with the same fields and the date rule; so the expense
\* count and both totals of B equal those of A.
C8_CloneCopiesEverything ==
    [][\A B \in Created :
          Earlier(B) # {} =>
            LET A == Latest(Earlier(B))
                catsA == CatsOf(Db, A.id)
                catsB == CatsOf(DbNext, B.id)
                expsA == {e \in exps : e.mb = A.id}
                expsB == {e \in exps' : e.mb = B.id}
            IN  /\ {<<c.name, c.sort_order>> : c \in catsA}
                      = {<<c.name, c.sort_order>> : c \in catsB}
                /\ Cardinality(catsA) = Cardinality(catsB)
                /\ \A e \in expsB : CatRow(DbNext, e.cat).mb = B.id
                /\ \A e \in expsA :
                       Cardinality({x \in expsA : CloneImage(x, B) = CloneImage(e, B)})
                         = Cardinality({y \in expsB : StoredImage(y) = CloneImage(e, B)})
                /\ Cardinality(expsA) = Cardinality(expsB)
                /\ total_recurring(DbNext, B.id) = total_recurring(Db, A.id)
                /\ total_variable(DbNext, B.id) = total_variable(Db, A.id)]_vars

\* The calls that edit or delete a stored category or expense, with their targets.
CategoryEdits(A) ==
    {DoCategorySave(c) : c \in {c \in CategorySaveCalls : c.pk \in {x.id : x \in CatsOf(Db, A)}}}
    \cup {CategoryDelete(Db, x.id, mode) : x \in CatsOf(Db, A), mode \in Modes}

ExpenseEdits(A) ==
    {DoExpenseSave(c) : c \in {c \in ExpenseSaveCalls : c.pk \in {x.id : x \in ExpsTouching(Db, A)}}}
    \cup {ExpenseDelete(Db, x.id, mode) : x \in ExpsTouching(Db, A), mode \in Modes}

\* C9.  (a) A step that creates a month leaves every stored category and
\* expense as it was, and the rows it adds are new: categories of the new
\* month under fresh pks, expenses of the new month under fresh pks, each in
\* one of the new categories.  (b) In every reachable state, for months A # B,
\* no save or delete of a category of A or of an expense referring to A, with
\* whatever arguments, changes or removes a category of B or an expense that
\* lies in B.
C9_SnapshotIsolation ==
    /\ [][\A B \in Created :
             /\ cats \subseteq cats'
             /\ exps \subseteq exps'
             /\ \A c \in cats' \ cats : c.id \notin CatIds(Db) /\ c.mb = B.id
             /\ \A e \in exps' \ exps :
                    /\ e.id \notin ExpIds(Db)
                    /\ e.mb = B.id
                    /\ e.cat \in {c.id : c \in cats' \ cats}]_vars
    /\ [](\A A \in MonthIds(Db), B \in MonthIds(Db) :
             A # B =>
               \A out \in CategoryEdits(A) \cup ExpenseEdits(A) :
                   /\ CatsOf(Db, B) \subseteq out.db.cats
                   /\ ExpsOf(Db, B) \subseteq out.db.exps)

\* Month B was cloned from A (both hold an expense in their own category) and
\* A's category has been renamed since: the names differ.
C9_Witness ==
    \E A \in months, B \in months :
        /\ A.user = B.user /\ DateLt(A.month, B.month)
        /\ ExpsOf(Db, A.id) # {} /\ ExpsOf(Db, B.id) # {}
        /\ {c.name : c \in CatsOf(Db, A.id)} \cap {c.name : c \in CatsOf(Db, B.id)} = {}

\* The first template (in name order) that names a category.
FirstNaming(T, n) ==
    CHOOSE x \in {t.name : t \in {t \in T : t.default_category_name = n}} :
        \A y \in {t.name : t \in {t \in T : t.default_category_name = n}} : x <= y

\* C10.  When a step creates month B and the owner has no earlier month, B
\* holds one Recurring expense per active template of the owner, with its
\* name, default amount and a reference to it, in the category named by the
\* template, and nothing else; it holds one category per distinct category
\* name of those templates, and the category whose name is the k-th to be
\* encountered (templates in name order) has sort order 10 * k.
C10_SeedFromTemplates ==
    [][\A B \in Created :
          Earlier(B) = {} =>
            LET T == {t \in templates : t.active /\ t.user = B.user}
                names == {t.default_category_name : t \in T}
                catsB == CatsOf(DbNext, B.id)
                expsB == {e \in exps' : e.mb = B.id}
            IN  /\ Cardinality(expsB) = Cardinality(T)
                /\ \A t \in T : \E e \in expsB :
                       /\ e.template = t.id
                       /\ e.name = t.name
                       /\ e.amount = t.default_amount
                       /\ CatRow(DbNext, e.cat).mb = B.id
                       /\ CatRow(DbNext, e.cat).name = t.default_category_name
                /\ \A e \in expsB : e.expense_type = Recurring
                /\ {c.name : c \in catsB} = names
                /\ Cardinality(catsB) = Cardinality(names)
                /\ \A c \in catsB :
                       c.sort_order = 10 * Cardinality(
                           {n \in names : FirstNaming(T, n) <= FirstNaming(T, c.name)})]_vars

\* A month seeded from two templates with different categories.
C10_Witness ==
    \E B \in months :
        /\ Earlier(B) = {}
        /\ {c.sort_order : c \in CatsOf(Db, B.id)} = {10, 20}
        /\ {e.template : e \in ExpsOf(Db, B.id)} = {1, 2}

----------------------------------------------------------------------------
(* C6: concurrent creation of the same month *)

\* C6.  Under every interleaving of concurrent create_month_with_defaults
\* calls, at most one MonthBudget is stored for an (owner, month); it holds
\* the categories and expenses of one population, not more; and every call
\* that has returned has returned without an error the pk of the stored row
\* of its (owner, month).
C6_OneMonthPerOwnerAndMonth ==
    /\ \A m \in months, n \in months :
           (m.user = n.user /\ m.month = n.month) => m.id = n.id
    /\ \A m \in months :
           LET T == {t \in templates : t.active /\ t.user = m.user}
           IN  Earlier(m) = {} => Cardinality({e \in exps : e.mb = m.id}) = Cardinality(T)
    /\ \A p \in Procs :
           procs[p].pc = "done" =>
             /\ procs[p].result \in {"created", "existing"}
             /\ \E m \in months :
                    m.id = procs[p].ret /\ m.user = procs[p].user /\ m.month = procs[p].month

----------------------------------------------------------------------------
(* C11: the totals of a month *)

\* The amounts of the rows of S, added pk by pk up to pk n.
RECURSIVE AmountsUpTo(_, _)
AmountsUpTo(S, n) ==
    IF n = 0 THEN 0
    ELSE (IF \E e \in S : e.id = n THEN (CHOOSE e \in S : e.id = n).amount ELSE 0)
         + AmountsUpTo(S, n - 1)

\* C11.  For every stored month, total_recurring is the sum of the amounts of
\* the enabled Recurring expenses whose month_budget it is, total_variable the
\* sum of the amounts of all its Variable expenses, enabled or not,
\* total_expenses their sum and balance the net income minus total_expenses;
\* each is a number, 0 over no expenses.
C11_Totals ==
    \A m \in months :
        LET mine == {e \in exps : e.mb = m.id}
            rec == AmountsUpTo({e \in mine : e.expense_type = Recurring /\ e.enabled},
                               nextId.exp)
            var == AmountsUpTo({e \in mine : e.expense_type = Variable}, nextId.exp)
        IN  /\ total_recurring(Db, m.id) = rec
            /\ total_variable(Db, m.id) = var
            /\ total_expenses(Db, m.id) = rec + var
            /\ balance(Db, m.id) = m.net_income - (rec + var)
            /\ (mine = {} => total_expenses(Db, m.id) = 0 /\ balance(Db, m.id) = m.net_income)

\* A month with income that holds a disabled Recurring expense and a disabled
\* Variable one.
C11_Witness ==
    \E m \in months :
        /\ m.net_income = 100
        /\ \E e \in exps : e.mb = m.id /\ e.expense_type = Recurring /\ ~e.enabled
        /\ \E e \in exps : e.mb = m.id /\ e.expense_type = Variable /\ ~e.enabled

----------------------------------------------------------------------------
(* C12: trailing_average_variable *)

\* The owner's stored months before the date, and the n latest of them.
MonthsBefore(user, up_to) ==
    {m \in months : m.user = user /\ DateLt(m.month, up_to)}

LatestN(S, n) ==
    {m \in S : Cardinality({x \in S : DateLt(m.month, x.month)}) < n}

\* The Variable spend of a month in its categories of that name.
VariableSpend(m, category_name) ==
    AmountsUpTo({e \in exps : e.expense_type = Variable
                     /\ CatRow(Db, e.cat).mb = m.id
                     /\ CatRow(Db, e.cat).name = category_name}, nextId.exp)

RECURSIVE SpendOver(_, _)
SpendOver(S, category_name) ==
    IF S = {} THEN 0
    ELSE LET m == CHOOSE m \in S : TRUE
         IN  VariableSpend(m, category_name) + SpendOver(S \ {m}, category_name)

\* C12.  trailing_average_variable(user, up_to_month, category_name, months)
\* is the mean, over the (at most `months`) latest months of the owner before
\* the first day of up_to_month, of the month's sum of Variable amounts in the
\* categories of that name; it is 0 when there is no such month.
C12_TrailingAverage ==
    \A user \in Owners, d \in QueryDates, name \in CatNames, n \in Windows :
        LET W == LatestN(MonthsBefore(user, FirstDay(d)), n)
            got == trailing_average_variable(Db, user, d, name, n)
        IN  IF W = {} THEN RatioEq(got, Ratio(0, 1))
            ELSE RatioEq(got, Ratio(SpendOver(W, name), Cardinality(W)))

----------------------------------------------------------------------------
(* C13: the months of a forecast *)

\* C13.  A finished call of forecast_months has returned `horizon` results,
\* and the month of its result of index i is the first day of the calendar
\* month i months after the month of start_month.
C13_ForecastMonthsAreConsecutive ==
    fc.pc = "done" =>
        /\ Len(fc.results) = fc.horizon
        /\ \A k \in 1..Len(fc.results) :
               fc.results[k].month = <<fc.start[1] + (k - 1), 1>>

----------------------------------------------------------------------------
(* C14: the amounts of a forecast *)

\* The owner's months at or before the date.
MonthsUpTo(user, start) ==
    {m \in months : m.user = user /\ (m.month = start \/ DateLt(m.month, start))}

\* The enabled Recurring expenses whose month_budget is one of the months B.
BaselineRows(B) ==
    {e \in exps : e.enabled /\ e.expense_type = Recurring /\ \E m \in B : e.mb = m.id}

\* The trailing averages for month m of the category names up to k in N.
RECURSIVE EstimateUpTo(_, _, _, _)
EstimateUpTo(user, m, N, k) ==
    IF k = 0 THEN Ratio(0, 1)
    ELSE RatioAdd(IF k \in N THEN trailing_average_variable(Db, user, m, k, 3)
                  ELSE Ratio(0, 1),
                  EstimateUpTo(user, m, N, k - 1))

\* C14.  In every result of forecast_months(user, start_month, horizon):
\* recurring_total is the sum of the enabled Recurring amounts of the owner's
\* latest month at or before the first day of start_month's month (0 without
\* such a month); variable_estimate is the sum, over the category names of
\* those expenses, of trailing_average_variable for the result's month;
\* total_expenses is their sum and balance is its negative.
C14_ForecastAmounts ==
    \A user \in Owners, d \in QueryDates, h \in 0..MaxReadHorizon :
        LET res == forecast_months(Db, user, d, h)
            base == LatestN(MonthsUpTo(user, FirstDay(d)), 1)
            rows == BaselineRows(base)
            N == {CatRow(Db, e.cat).name : e \in rows}
            rec == AmountsUpTo(rows, nextId.exp)
        IN  \A k \in 1..Len(res) :
                LET est == EstimateUpTo(user, res[k].month, N, 2)
                IN  /\ res[k].recurring_total = rec
                    /\ RatioEq(res[k].variable_estimate, est)
                    /\ RatioEq(res[k].total_expenses, RatioAdd(Ratio(rec, 1), est))
                    /\ RatioEq(res[k].balance,
                               Ratio(0 - RatioAdd(Ratio(rec, 1), est).num,
                                     RatioAdd(Ratio(rec, 1), est).den))

\* A forecast whose second result has a recurring total and a variable estimate.
C14_Witness ==
    \E user \in Owners, d \in QueryDates :
        LET res == forecast_months(Db, user, d, 2)
        IN  res[2].recurring_total > 0 /\ res[2].variable_estimate.num > 0

----------------------------------------------------------------------------
(* C15: the MonthBudget row of a new month *)

\* The arguments of a call that meets no failure, for any date of the months
\* in use and of the one after.
CreateArgs == [month : QueryDates, user : Owners, carry : BOOLEAN]

Exists(user, mi) == \E m \in months : m.user = user /\ m.month = <<mi, 1>>

Create(a) == CreateMonthWithDefaults(Db, a.month, a.user, a.carry, 0)

\* The owner's month that precedes the target in the calendar, as a set.
Prior(a) == LatestN(MonthsBefore(a.user, <<a.month[1], 1>>), 1)

\* C15.  A call of create_month_with_defaults for a month that is not stored
\* creates a row that is Open, is the owner's, has the first day of the
\* date's month as month, and has as net income the prior month's when there
\* is a prior month and carry_forward_income is true, and 0 otherwise.
C15_NewMonthRow ==
    \A a \in CreateArgs :
        ~Exists(a.user, a.month[1]) =>
            LET out == Create(a)
                row == MonthRow(out.db, out.ret)
            IN  /\ out.result = "created"
                /\ out.ret \notin MonthIds(Db)
                /\ row.status = Open
                /\ row.user = a.user
                /\ row.month = <<a.month[1], 1>>
                /\ row.net_income =
                       IF a.carry /\ Prior(a) # {}
                       THEN (CHOOSE m \in Prior(a) : TRUE).net_income
                       ELSE 0

\* A call on a mid-month date, with a prior month that has an income, both
\* with and without the carry-forward.
C15_Witness ==
    \E a \in CreateArgs, b \in CreateArgs :
        /\ a.month[2] = 15 /\ a.carry /\ ~b.carry
        /\ a.month = b.month /\ a.user = b.user
        /\ ~Exists(a.user, a.month[1])
        /\ \E m \in Prior(a) : m.net_income = 100
        /\ MonthRow(Create(a).db, Create(a).ret).net_income = 100
        /\ MonthRow(Create(b).db, Create(b).ret).net_income = 0

----------------------------------------------------------------------------
(* C16: creation after a closed month *)

\* The expenses that lie wholly under month P.
WhollyUnder(P) == {e \in exps : e.mb = P.id /\ CatRow(Db, e.cat).mb = P.id}

\* C16.  A call of create_month_with_defaults for a month that is not stored,
\* when the owner's prior month P is Closed, does not raise: it creates an
\* Open month that holds a category for each category of P (same name and
\* sort order) and, for each expense wholly under P, an expense with the same
\* name, amount and kind in its category of the same name; and every stored
\* month, category and expense, those of P among them, is left as it was.
C16_CreationAfterClosedMonth ==
    \A a \in CreateArgs :
        \A P \in Prior(a) :
            (~Exists(a.user, a.month[1]) /\ P.status = Closed) =>
                LET out == Create(a)
                    new == out.ret
                IN  /\ out.result = "created"
                    /\ MonthRow(out.db, new).status = Open
                    /\ out.db.months = months \cup {MonthRow(out.db, new)}
                    /\ cats = {c \in out.db.cats : c.mb # new}
                    /\ exps = {e \in out.db.exps : e.mb # new}
                    /\ {<<c.name, c.sort_order>> : c \in CatsOf(Db, P.id)}
                         = {<<c.name, c.sort_order>> : c \in CatsOf(out.db, new)}
                    /\ \A e \in WhollyUnder(P) :
                           \E y \in out.db.exps :
                               /\ y.mb = new
                               /\ CatRow(out.db, y.cat).mb = new
                               /\ CatRow(out.db, y.cat).name = CatRow(Db, e.cat).name
                               /\ y.name = e.name /\ y.amount = e.amount
                               /\ y.expense_type = e.expense_type

\* A closed month with an income, a category and an expense, and no month
\* after it: the call that clones it.
C16_Witness ==
    \E a \in CreateArgs :
        \E P \in Prior(a) :
            /\ ~Exists(a.user, a.month[1]) /\ a.carry
            /\ P.status = Closed /\ P.net_income = 100
            /\ WhollyUnder(P) # {}
            /\ Create(a).result = "created"

----------------------------------------------------------------------------
(* C17: MonthBudget.close *)

\* C17.  close() on an object of any stored month, whatever net income the
\* object holds in memory, succeeds and stores the status Closed for that
\* month and nothing else: the stored income, the other months, the
\* categories and the expenses are as before, and so is everything when the
\* month was Closed already.
C17_CloseSetsStatusOnly ==
    \A m \in months, memIncome \in Incomes :
        LET out == MonthClose(Db, m.id, memIncome)
        IN  /\ out.result = "ok"
            /\ out.db = [Db EXCEPT !.months = (@ \ {m}) \cup {[m EXCEPT !.status = Closed]}]
            /\ (m.status = Closed => out.db = Db)

----------------------------------------------------------------------------
(* C18: the month that a new month is cloned from *)

\* C18.  A call of create_month_with_defaults for a month that is not stored
\* clones the owner's stored month with the greatest month value before the
\* target, in whatever order the months were created: the new month has that
\* month's categories and (with carry_forward_income) its income, and is
\* empty when that month has no categories.  Only when the owner has no
\* month before the target is the new month seeded, with one expense per
\* active template of the owner.
C18_PriorMonthByCalendar ==
    \A a \in CreateArgs :
        ~Exists(a.user, a.month[1]) =>
            LET out == Create(a)
                new == out.ret
                E == {m \in months : m.user = a.user /\ m.month[1] < a.month[1]}
                newExps == {e \in out.db.exps : e.mb = new}
            IN  IF E # {}
                THEN \E A \in E :
                       /\ \A x \in E : x.month[1] <= A.month[1]
                       /\ {<<c.name, c.sort_order>> : c \in CatsOf(out.db, new)}
                            = {<<c.name, c.sort_order>> : c \in CatsOf(Db, A.id)}
                       /\ a.carry => MonthRow(out.db, new).net_income = A.net_income
                       /\ CatsOf(Db, A.id) = {} => newExps = {}
                       /\ \A e \in newExps :
                              \E x \in exps : x.mb = A.id /\ x.name = e.name
                                               /\ x.amount = e.amount
                ELSE LET T == {t \in templates : t.active /\ t.user = a.user}
                     IN  /\ {e.template : e \in newExps} = {t.id : t \in T}
                         /\ Cardinality(newExps) = Cardinality(T)

\* The owner's months created against the calendar order and holding
\* different incomes, beside a month of another owner that has categories,
\* and a target month after them.
C18_Witness ==
    \E a \in CreateArgs, m1 \in months, m2 \in months, X \in months :
        /\ ~Exists(a.user, a.month[1]) /\ a.carry
        /\ m1.user = a.user /\ m2.user = a.user /\ X.user # a.user
        /\ m1.month[1] < m2.month[1] /\ m2.month[1] < a.month[1]
        /\ m2.id < m1.id
        /\ m1.net_income # m2.net_income
        /\ CatsOf(Db, X.id) # {}
        /\ Create(a).result = "created"

----------------------------------------------------------------------------
(* C19: ForecastOverride and the forecast *)

\* What the forecast computes for a category name in month m of the user.
ComputedFor(user, m, name) ==
    LET by_cat == RecurringByCat(Db, LatestAtOrBefore(Db, user, m))
    IN  IF name \in DOMAIN by_cat
        THEN RatioAdd(Ratio(by_cat[name], 1),
                      trailing_average_variable(Db, user, m, name, 3))
        ELSE Ratio(0, 1)

\* The forecast of month M with the overrides of M applied, over the category
\* names up to k.
RECURSIVE WithOverrides(_, _)
WithOverrides(M, k) ==
    IF k = 0 THEN Ratio(0, 1)
    ELSE LET O == {o \in overrides : o.mb = M.id /\ CatRow(Db, o.cat).name = k}
         IN  RatioAdd(IF O # {} THEN Ratio((CHOOSE o \in O : TRUE).override_amount, 1)
                      ELSE ComputedFor(M.user, M.month, k),
                      WithOverrides(M, k - 1))

\* C19.  The forecast for a stored month counts, for each category of the
\* month that has a ForecastOverride, the override amount in place of the
\* computed value, and the computed value for each category that has none.
C19_OverrideReplacesForecast ==
    \A M \in months :
        RatioEq(forecast_months(Db, M.user, M.month, 1)[1].total_expenses,
                WithOverrides(M, 2))

----------------------------------------------------------------------------
(* C20: the date of a Variable expense *)

\* C20.  Every stored Variable expense has a date.
C20_VariableExpenseHasDate ==
    \A e \in exps : e.expense_type = Variable => e.date # NoDate

----------------------------------------------------------------------------
(* views.py: the requests of a logged-in user *)

MaxViewOps == 5

\* request.user of a @login_required view is never anonymous.
Users == Owners \ {NoUser}

\* get_object_or_404(MonthBudget, pk=..., user=request.user)
OwnMonth(db, user, pk) == \E m \in db.months : m.id = pk /\ m.user = user

\* get_object_or_404(MonthCategory, pk=..., month_budget__user=request.user)
OwnCategory(db, user, pk) ==
    \E c \in db.cats : c.id = pk /\ OwnMonth(db, user, c.mb)

\* get_object_or_404(MonthExpense, pk=...,
\*                   month_category__month_budget__user=request.user)
OwnExpense(db, user, pk) ==
    \E e \in db.exps : e.id = pk /\ OwnCategory(db, user, e.cat)

\* MonthExpense.clean(), called by the form's validation: a variable expense
\* without a date gets the month of its category.
CleanDate(db, cat, f) ==
    IF f.expense_type = Variable /\ f.date = NoDate
    THEN MonthRow(db, CatRow(db, cat).mb).month
    ELSE f.date

\* MonthExpenseForm.__init__ and form.is_valid(), for the posted category and
\* fields on an instance whose month_budget is memMb: "valid", or why it is
\* not.  The choices of month_category are the categories of month_budget when
\* the view passes one (0 when it does not), and every category otherwise.
\* With an invalid choice the instance has no category, and clean() of a
\* variable expense without a date raises on reading it.
ExpenseFormValid(db, month_budget, memMb, cat, f) ==
    LET choices == IF month_budget # 0
                   THEN {c.id : c \in CatsOf(db, month_budget)}
                   ELSE CatIds(db)
    IN  IF cat \notin choices
        THEN IF f.expense_type = Variable /\ f.date = NoDate
             THEN "RelatedObjectDoesNotExist" ELSE "invalid"
        ELSE IF MonthRow(db, GetMonthBudget(db, memMb, cat)).status = Closed
        THEN "invalid"
        ELSE "valid"

\* create_month_view
CreateMonthView(db, user, m) == CreateMonthWithDefaults(db, m, user, TRUE, 0)

\* close_month_view (POST)
CloseMonthView(db, user, pk) ==
    IF ~OwnMonth(db, user, pk) THEN Fail(db, "404")
    ELSE MonthClose(db, pk, MonthRow(db, pk).net_income)

\* expense_add_view (POST): the form is bound to the month, the new expense
\* gets the month as month_budget, and is saved when its category is of it.
ExpenseAddView(db, user, month_id, cat, f) ==
    LET valid == ExpenseFormValid(db, month_id, 0, cat, f)
        v == [f EXCEPT !.date = CleanDate(db, cat, f), !.template = 0]
    IN  IF ~OwnMonth(db, user, month_id) THEN Fail(db, "404")
        ELSE IF MonthRow(db, month_id).status = Closed THEN Fail(db, "403")
        ELSE IF valid # "valid" THEN Fail(db, valid)
        ELSE IF CatRow(db, cat).mb # month_id
        THEN Fail(db, "Invalid category selection")
        ELSE ExpenseSave(db, 0, month_id, cat, v, "plain")

\* expense_edit_view (POST): the form is bound to the instance only, so that
\* month_budget stays as stored and the category is any category posted.
ExpenseEditView(db, user, pk, cat, f) ==
    LET e == ExpRow(db, pk)
        valid == ExpenseFormValid(db, 0, e.mb, cat, f)
        v == [f EXCEPT !.date = CleanDate(db, cat, f), !.template = e.template]
    IN  IF ~OwnExpense(db, user, pk) THEN Fail(db, "404")
        ELSE IF MonthRow(db, CatRow(db, e.cat).mb).status = Closed
        THEN Fail(db, "403")
        ELSE IF valid # "valid" THEN Fail(db, valid)
        ELSE ExpenseSave(db, pk, e.mb, cat, v, "plain")

\* expense_toggle_type_view: recurring becomes variable, dated with the month
\* of the category; variable becomes recurring, without a date.
ExpenseToggleTypeView(db, user, pk) ==
    LET e == ExpRow(db, pk)
        month == MonthRow(db, CatRow(db, e.cat).mb)
        v == IF e.expense_type = Recurring
             THEN [e EXCEPT !.expense_type = Variable, !.date = month.month]
             ELSE [e EXCEPT !.expense_type = Recurring, !.date = NoDate]
    IN  IF ~OwnExpense(db, user, pk) THEN Fail(db, "404")
        ELSE IF month.status = Closed THEN Fail(db, "403")
        ELSE ExpenseSave(db, pk, e.mb, e.cat, v, "plain")

\* category_add_view (POST): month_budget is not a field of the form, so the
\* unique_together is left to the database.
CategoryAddView(db, user, month_id, name, sort_order) ==
    IF ~OwnMonth(db, user, month_id) THEN Fail(db, "404")
    ELSE IF MonthRow(db, month_id).status = Closed THEN Fail(db, "403")
    ELSE CategorySave(db, 0, month_id, name, sort_order, "plain")

\* category_delete_view (POST); reassign_to = 0 stands for no target posted.
\* The target is looked up among the categories of the month, the category
\* being deleted included.  cat.monthexpense_set.update(month_category=
\* target_cat) is one UPDATE of the category column, not a save() of each
\* expense.
CategoryDeleteView(db, user, pk, reassign_to) ==
    LET cat == CatRow(db, pk)
        has_expenses == \E e \in db.exps : e.cat = pk
        reassigned ==
            [db EXCEPT !.exps = {IF e.cat = pk THEN [e EXCEPT !.cat = reassign_to]
                                 ELSE e : e \in @}]
    IN  IF ~OwnCategory(db, user, pk) THEN Fail(db, "404")
        ELSE IF MonthRow(db, cat.mb).status = Closed THEN Fail(db, "403")
        ELSE IF has_expenses /\ reassign_to = 0 THEN Fail(db, "refused")
        ELSE IF reassign_to = 0 THEN CategoryDelete(db, pk, "plain")
        ELSE IF ~(\E c \in db.cats : c.id = reassign_to /\ c.mb = cat.mb)
        THEN Fail(db, "404")
        ELSE CategoryDelete(reassigned, pk, "plain")

\* The requests a user can send in the current state, as argument records.
ExpenseAddRequests ==
    [user : Users, month_id : MonthIds(Db), cat : CatIds(Db), f : ExpenseInputs]
ExpenseEditRequests ==
    [user : Users, pk : ExpIds(Db), cat : CatIds(Db), f : ExpenseInputs]
CategoryDeleteRequests ==
    [user : Users, pk : CatIds(Db), reassign_to : {0} \cup CatIds(Db)]

\* The response is sent: the database the view left becomes the state.
Responds(out) ==
    /\ ops < MaxViewOps
    /\ out.db # Db
    /\ out.db.nextId.month <= MaxMonthId + 1
    /\ out.db.nextId.cat <= MaxCatId + 1
    /\ out.db.nextId.exp <= MaxExpId + 1
    /\ months' = out.db.months
    /\ cats' = out.db.cats
    /\ exps' = out.db.exps
    /\ nextId' = out.db.nextId
    /\ ops' = ops + 1
    /\ closedIncome' = ClosedIncomeAfter(out.db)
    /\ UNCHANGED <<templates, procs, fc, overrides, req>>

\* ?month=YYYY-MM is parsed to the first day of that month.
CreateMonthRequest ==
    \E user \in Users, mi \in 1..MaxMonthIndex :
        Responds(CreateMonthView(Db, user, <<mi, 1>>))

CloseMonthRequest ==
    \E user \in Users, pk \in MonthIds(Db) : Responds(CloseMonthView(Db, user, pk))

ExpenseAddRequest ==
    \E r \in ExpenseAddRequests : 
        Responds(ExpenseAddView(Db, r.user, r.month_id, r.cat, r.f))

ExpenseEditRequest ==
    \E r \in ExpenseEditRequests : 
        Responds(ExpenseEditView(Db, r.user, r.pk, r.cat, r.f))

ExpenseToggleTypeRequest ==
    \E user \in Users, pk \in ExpIds(Db) :
        Responds(ExpenseToggleTypeView(Db, user, pk))

CategoryAddRequest ==
    \E user \in Users, month_id \in MonthIds(Db), name \in CatNames, s \in SortInputs :
        Responds(CategoryAddView(Db, user, month_id, name, s))

CategoryDeleteRequest ==
    \E r \in CategoryDeleteRequests : 
        Responds(CategoryDeleteView(Db, r.user, r.pk, r.reassign_to))

NextViews ==
    \/ CreateMonthRequest
    \/ CloseMonthRequest
    \/ ExpenseAddRequest
    \/ ExpenseEditRequest
    \/ ExpenseToggleTypeRequest
    \/ CategoryAddRequest
    \/ CategoryDeleteRequest

SpecViews == Init /\ [][NextViews]_vars

----------------------------------------------------------------------------
(* C21: an expense and its category are of one month *)

\* C21.  After any sequence of month creation, category add, expense add,
\* expense edit, type toggle, month close and category delete requests: every
\* stored expense has its month_budget set, and it is the month of its
\* category; the totals of every month, taken over month_budget, are the sums
\* over the expenses of the month's categories; and every add or edit request
\* that posts a category of another month than the expense's stores nothing.
C21_ExpenseMonthIsCategoryMonth ==
    /\ \A e \in exps : e.mb # 0 /\ e.mb = CatRow(Db, e.cat).mb
    /\ \A mb \in MonthIds(Db) :
          LET inCategories == {e \in exps : CatRow(Db, e.cat).mb = mb}
          IN  /\ total_recurring(Db, mb) =
                    SumAmounts({e \in inCategories :
                                   e.enabled /\ e.expense_type = Recurring})
              /\ total_variable(Db, mb) =
                    SumAmounts({e \in inCategories : e.expense_type = Variable})
    /\ \A r \in ExpenseAddRequests :
          CatRow(Db, r.cat).mb # r.month_id =>
              ExpenseAddView(Db, r.user, r.month_id, r.cat, r.f).db = Db
    /\ \A r \in ExpenseEditRequests :
          CatRow(Db, r.cat).mb # ExpRow(Db, r.pk).mb =>
              ExpenseEditView(Db, r.user, r.pk, r.cat, r.f).db = Db

----------------------------------------------------------------------------
(* C23: category_delete_view keeps the expenses *)

\* C23.  In every reachable state, for every POST to category_delete_view for
\* a category that holds expenses: no expense is deleted; without a target the
\* request changes nothing; and a request that changes something removes the
\* category and leaves every expense it held stored under a remaining category
\* of the same month -- whatever target of the month is posted, the category
\* itself included.
C23_CategoryDeleteKeepsExpenses ==
    \A r \in CategoryDeleteRequests :
        LET out == CategoryDeleteView(Db, r.user, r.pk, r.reassign_to)
            mb == CatRow(Db, r.pk).mb
            held == {e \in exps : e.cat = r.pk}
        IN  held # {} =>
               /\ ExpIds(out.db) = ExpIds(Db)
               /\ r.reassign_to = 0 => out.db = Db
               /\ out.db # Db =>
                     /\ r.pk \notin CatIds(out.db)
                     /\ \A e \in held :
                           \E k \in out.db.exps, c \in out.db.cats :
                               k.id = e.id /\ k.cat = c.id /\ c.mb = mb

----------------------------------------------------------------------------
(* A guarded write against a concurrent close *)

\* The guarded calls a request can make on the stored categories and expenses,
\* without admin_override: the object is the stored row, a save carries the
\* edited fields.
GuardedCalls ==
    {[kind |-> "MonthCategory.save", pk |-> c.id, mb |-> c.mb, cat |-> 0,
      name |-> n, sort_order |-> c.sort_order, f |-> <<>>] :
        c \in cats, n \in CatNames}
    \cup {[kind |-> "MonthCategory.delete", pk |-> c.id, mb |-> c.mb, cat |-> 0,
           name |-> c.name, sort_order |-> c.sort_order, f |-> <<>>] : c \in cats}
    \cup {[kind |-> "MonthExpense.save", pk |-> e.id, mb |-> e.mb, cat |-> e.cat,
           name |-> 0, sort_order |-> 0, f |-> [g EXCEPT !.template = e.template]] :
             e \in exps, g \in ExpenseInputs}
    \cup {[kind |-> "MonthExpense.delete", pk |-> e.id, mb |-> e.mb, cat |-> e.cat,
           name |-> 0, sort_order |-> 0, f |-> <<>>] : e \in exps}

\* The object is loaded.  Its month_budget is a lazy relation: it is either
\* read now and cached on the object (a view reads mb.status before it saves),
\* or left for the guard to read.
RequestLoad ==
    /\ req.pc \in {"idle", "done"}
    /\ \E call \in GuardedCalls, cached \in BOOLEAN :
          LET mb == GetMonthBudget(Db, call.mb, call.cat)
          IN  req' = [pc |-> "check", call |-> call, result |-> "none",
                      seen |-> IF cached /\ mb # 0 THEN MonthRow(Db, mb).status
                               ELSE "unread"]
    /\ UNCHANGED <<months, cats, exps, templates, nextId, ops, closedIncome, procs, fc, overrides>>

\* The top of save() and delete(): mb = self._get_month_budget() reads the
\* month unless the object holds it already, and mb.status decides.
RequestCheck ==
    /\ req.pc = "check"
    /\ LET mb == GetMonthBudget(Db, req.call.mb, req.call.cat)
           seen == IF req.seen # "unread" \/ mb = 0 THEN req.seen
                   ELSE MonthRow(Db, mb).status
       IN  req' = IF seen = Closed
                  THEN [req EXCEPT !.pc = "done", !.seen = seen,
                                   !.result = "PermissionDenied"]
                  ELSE [req EXCEPT !.pc = "write", !.seen = seen]
    /\ UNCHANGED <<months, cats, exps, templates, nextId, ops, closedIncome, procs, fc, overrides>>

\* super().save() / super().delete(), once the check has passed on the status
\* it saw: the statement is sent and committed.
RequestWrite ==
    /\ req.pc = "write"
    /\ ops < MaxOps
    /\ LET call == req.call
           out ==
             CASE call.kind = "MonthCategory.save" ->
                    CategorySave(Db, call.pk, call.mb, call.name, call.sort_order, "stale")
               [] call.kind = "MonthCategory.delete" ->
                    CategoryDelete(Db, call.pk, "stale")
               [] call.kind = "MonthExpense.save" ->
                    ExpenseSave(Db, call.pk, call.mb, call.cat, call.f, "stale")
               [] call.kind = "MonthExpense.delete" ->
                    ExpenseDelete(Db, call.pk, "stale")
       IN  /\ months' = out.db.months
           /\ cats' = out.db.cats
           /\ exps' = out.db.exps
           /\ nextId' = out.db.nextId
           /\ closedIncome' = ClosedIncomeAfter(out.db)
           /\ req' = [req EXCEPT !.pc = "done", !.result = out.result]
    /\ ops' = ops + 1
    /\ UNCHANGED <<templates, procs, fc, overrides>>

NextRace ==
    \/ CreateMonth
    \/ CloseMonth
    \/ RequestLoad
    \/ RequestCheck
    \/ RequestWrite

SpecRace == Init /\ [][NextRace]_vars

----------------------------------------------------------------------------
(* C22: the closed-month check and the write are one step *)

\* C22.  Under every interleaving of a request that closes a month with a
\* request that saves or deletes a category or expense of that month without
\* override -- the object loaded before or after the close -- no step changes
\* the categories or the expenses of a month whose close is committed.
C22_CheckAndWriteAreOneStep ==
    [][\A M \in ClosedMonths :
          /\ CatsOf(DbNext, M) = CatsOf(Db, M)
          /\ ExpsTouching(DbNext, M) = ExpsTouching(Db, M)]_vars

====
